---- MODULE Spec2Model ----
(***************************************************************************)
(* Model of functions/index.js: the two HTTP-triggered cloud functions     *)
(* seedData and updateUser, and the Firestore documents they write.        *)
(*                                                                         *)
(* A handler runs without interruption from one `await` to the next, so    *)
(* every action below is the code between two suspension points.           *)
(***************************************************************************)
EXTENDS Integers, Sequences, FiniteSets, TLC

VARIABLES
  seedPc,      \* the seedData invocation: "idle" | "commit" | "done" (responded)
  seedReq,     \* the request the last seedData invocation received
  seedRes,     \* the response the last seedData invocation sent
  gen,         \* lengths of users/artists/albums/reviews built by the invocation
  next,        \* 1-based position in `ops` where commitBatchOps' loop continues
  inflight,    \* batches whose batch.commit() has been called and not settled
  commits,     \* batches of this invocation Firestore has committed, in order
  patch,       \* per updateUser invocation: pc, request, update data, response
  userDocs,    \* collection 'users': document id -> fields
  clock,       \* Firestore server time
  lastWrite,   \* history: the last write applied to a user document
  prevWrite,   \* history: the write applied before it
  creds        \* the key the client sends: <<query, x-seed-key header, body>>

seedVars == <<seedPc, seedReq, seedRes, gen, next, inflight, commits>>
storage  == <<userDocs, clock>>
vars     == <<seedPc, seedReq, seedRes, gen, next, inflight, commits,
              patch, userDocs, clock, lastWrite, prevWrite, creds>>

----------------------------------------------------------------------------
(* Bounds of the model *)

\* Server timestamps the model distinguishes
MaxClock == 3

----------------------------------------------------------------------------
(* JavaScript strings: sequences of one-character strings *)

UpperChars == <<"A", "B", "F", "X">>
LowerChars == <<"a", "b", "f", "x">>
WordChars  == {"A", "B", "F", "X", "a", "b", "f", "x", "o", "0", "_"}

toLowerChar(c) ==
  IF \E i \in DOMAIN UpperChars : UpperChars[i] = c
  THEN LowerChars[CHOOSE i \in DOMAIN UpperChars : UpperChars[i] = c]
  ELSE c

\* String.prototype.toLowerCase
toLowerCase(s) == [i \in 1..Len(s) |-> toLowerChar(s[i])]

\* s.replace(/[^a-zA-Z0-9_]/g, "")
StripNonWord(s) == SelectSeq(s, LAMBDA c : c \in WordChars)

----------------------------------------------------------------------------
(* JavaScript values held in documents and in the `updates` mapping *)

Absent    == [t |-> "absent",    s |-> <<>>, n |-> 0]   \* key not in the object
Undef     == [t |-> "undefined", s |-> <<>>, n |-> 0]   \* key present, value undefined
Str(s)    == [t |-> "string",    s |-> s,    n |-> 0]
Num(n)    == [t |-> "number",    s |-> <<>>, n |-> n]
Ts(n)     == [t |-> "timestamp", s |-> <<>>, n |-> n]
\* a string holding the decimal numeral of n, such as the query value "20"
Numeral(n) == [t |-> "numeral",  s |-> <<>>, n |-> n]
Null      == [t |-> "null",      s |-> <<>>, n |-> 0]
\* an object literal and an array, with their own enumerable keys
Obj(m)    == [t |-> "object",    s |-> <<>>, n |-> 0, map |-> m]
Arr(m)    == [t |-> "array",     s |-> <<>>, n |-> 0, map |-> m]
\* admin.firestore.FieldValue.serverTimestamp()
ServerTimestamp == [t |-> "serverTimestamp", s |-> <<>>, n |-> 0]

\* ToBoolean
Truthy(v) ==
  CASE v.t = "string" -> v.s # <<>>
    [] v.t = "number" -> v.n # 0
    [] v.t \in {"absent", "undefined", "null"} -> FALSE
    [] OTHER -> TRUE

\* a || b
Or(a, b) == IF Truthy(a) THEN a ELSE b

\* JavaScript numbers: an integer or NaN (the requests of the model carry no
\* fractions)
JsNaN    == [nan |-> TRUE,  n |-> 0]
JsInt(n) == [nan |-> FALSE, n |-> n]

\* Number(v)
Number(v) ==
  CASE v.t \in {"number", "numeral"} -> JsInt(v.n)
    [] v.t = "string" -> IF v.s = <<>> THEN JsInt(0) ELSE JsNaN
    [] OTHER -> JsNaN

\* Math.min(a, cap): NaN when either argument is NaN
MathMin(a, cap) ==
  IF a.nan THEN JsNaN ELSE JsInt(IF a.n < cap THEN a.n ELSE cap)

\* Number of times the body of `for (let i = 0; i < c; i++)` runs
LoopRuns(c) == IF c.nan \/ c.n <= 0 THEN 0 ELSE c.n

\* String(v), for the values the model passes to it
String(v) == IF v.t = "number" THEN <<ToString(v.n)>> ELSE v.s

Fields ==
  {"id", "username", "email", "name", "bio", "profileImageUrl", "avatarUrl",
   "usernameLowercase", "nameLowercase", "followers", "followersCount",
   "following", "followingCount", "createdAt", "updatedAt", "0"}

\* An object with no keys; also stands for a document that does not exist
NoDoc == [f \in Fields |-> Absent]

----------------------------------------------------------------------------
(* Authorization *)

\* const SEED_KEY = config seed.key || process.env.SEED_KEY || "dev-seed-key"
SEED_KEY == Str(<<"dev-seed-key">>)

\* seedData: req.query.key || req.get("x-seed-key") || (req.body && req.body.key) || ""
seedDataKey(req) == Or(Or(Or(req.qKey, req.hKey), req.bKey), Str(<<>>))

\* Variant of updateUserKey that reads the places in seedData's order
updateUserKeyQueryFirst(req) == Or(Or(Or(req.qKey, req.hKey), req.bKey), Str(<<>>))

\* updateUser: req.body?.key || req.query?.key || req.get("x-seed-key") || ""
updateUserKey(req) == Or(Or(Or(req.bKey, req.qKey), req.hKey), Str(<<>>))

\* Variant of KeyAccepted that lets a request without a key in
KeyAcceptedLoose(key) == (~Truthy(key)) \/ key = SEED_KEY

\* the negation of `!key || key !== SEED_KEY`
KeyAccepted(key) == ~((~Truthy(key)) \/ key # SEED_KEY)

----------------------------------------------------------------------------
(* seedData: quantities and generated entities *)

UsersCap            == 500
ArtistsCap          == 200
AlbumsPerArtistCap  == 20
ReviewsPerUserCap   == 20
BATCH_SIZE          == 500

usersCount(req) ==
  MathMin(Number(Or(Or(req.qUsers, req.bUsers), Num(20))), UsersCap)
artistsCount(req) ==
  MathMin(Number(Or(Or(req.qArtists, req.bArtists), Num(8))), ArtistsCap)
albumsPerArtist(req) ==
  MathMin(Number(Or(req.qAlbumsPerArtist, Num(3))), AlbumsPerArtistCap)
reviewsPerUser(req) ==
  MathMin(Number(Or(req.qReviewsPerUser, Num(2))), ReviewsPerUserCap)

\* What faker returns for the first user of an invocation, whose document the
\* model follows field by field; the other writes are followed as positions
\* in ops
Fakes ==
  { [uuid |-> <<"u1">>, userName |-> <<"F", ".", "o">>, fullName |-> <<"A", "b">>],
    [uuid |-> <<"u1">>, userName |-> <<"b", "_", "X">>, fullName |-> <<"B", " ", "x">>] }

makeFakeUser(fake) ==
  LET username == toLowerCase(StripNonWord(fake.userName))
      name     == fake.fullName
  IN  [f \in Fields |->
        CASE f = "id"                -> Str(fake.uuid)
          [] f = "username"          -> Str(username)
          [] f = "email"             -> Str(<<"e">>)
          [] f = "name"              -> Str(name)
          [] f = "bio"               -> Str(<<"l">>)
          [] f = "profileImageUrl"   -> Str(<<"i">>)
          [] f = "avatarUrl"         -> Str(<<"i">>)
          [] f = "usernameLowercase" -> Str(toLowerCase(username))
          [] f = "nameLowercase"     -> Str(toLowerCase(name))
          [] f \in {"followers", "followersCount", "following", "followingCount"}
                                     -> Num(0)
          [] f \in {"createdAt", "updatedAt"} -> ServerTimestamp
          [] OTHER                   -> Absent]

\* The payload written for a user: every field of the user but updatedAt
userPayload(u) == [f \in Fields |-> IF f = "updatedAt" THEN Absent ELSE u[f]]

\* Lengths of the arrays the generation loops build; `threw` when
\* faker.helpers.arrayElement(albums) is asked for an element of no albums
generate(req, fake) ==
  LET users   == LoopRuns(usersCount(req))
      artists == LoopRuns(artistsCount(req))
      albums  == artists * LoopRuns(albumsPerArtist(req))
      perUser == LoopRuns(reviewsPerUser(req))
  IN  [users |-> users, artists |-> artists, albums |-> albums,
       reviews |-> users * perUser,
       threw |-> (users > 0 /\ perUser > 0 /\ albums = 0),
       first |-> IF users > 0 THEN makeFakeUser(fake) ELSE NoDoc]

NoGen == [users |-> 0, artists |-> 0, albums |-> 0, reviews |-> 0, threw |-> FALSE,
          first |-> NoDoc]

\* ops.length: users, then artists, then albums, then reviews
opsLength(g) == g.users + g.artists + g.albums + g.reviews

----------------------------------------------------------------------------
(* seedData: batched writes *)

\* Variant of BatchFull that lets one operation more into a batch
BatchFullOffByOne(count) == count > BATCH_SIZE

\* if (count >= BATCH_SIZE)
BatchFull(count) == count >= BATCH_SIZE

\* The loop of commitBatchOps from ops[i] with `count` operations in the batch,
\* up to its next `await batch.commit()` or the end of ops: it adds operations
\* one by one and stops at the first that fills the batch, which is the one
\* that brings count to BATCH_SIZE or one next to it
fillBatch(i, count, n) ==
  LET left  == n - i + 1
      added == {k \in (BATCH_SIZE - count - 1)..(BATCH_SIZE - count + 1) :
                  k >= 1 /\ k <= left /\ BatchFull(count + k)}
      k     == IF added = {} THEN (IF left > 0 THEN left ELSE 0)
               ELSE CHOOSE a \in added : \A b \in added : a <= b
  IN  [next |-> i + k, count |-> count + k]

RECURSIVE allBatches(_, _)
allBatches(i, n) ==
  LET r == fillBatch(i, 0, n)
  IN  IF r.count = 0 THEN {}
      ELSE {[lo |-> r.next - r.count, hi |-> r.next - 1]} \cup allBatches(r.next, n)

\* Variant of commitBatchOps that does not await: every batch is handed to
\* commit() at once
commitBatchOpsNoAwait(i, n) == allBatches(i, n)

\* The batches whose commit() commitBatchOps has called when it next suspends,
\* resuming at ops[i] with an empty batch: the batch it filled, committed in the
\* loop when full or after the loop when count > 0
commitBatchOps(i, n) ==
  LET r == fillBatch(i, 0, n)
  IN  IF r.count > 0 THEN {[lo |-> r.next - r.count, hi |-> r.next - 1]} ELSE {}

\* Position in ops after the batches handed to commit()
After(i, batches) ==
  IF batches = {} THEN i
  ELSE (CHOOSE b \in batches : \A c \in batches : c.hi <= b.hi).hi + 1

----------------------------------------------------------------------------
(* Firestore, as far as the handlers use it *)

\* The value stored for a written value at server time `now`
Stored(v, now) == IF v.t = "serverTimestamp" THEN Ts(now) ELSE v

\* set(ref, data, { merge: true }): the fields of data replace the stored ones
MergeSet(doc, data, now) ==
  [f \in Fields |-> IF data[f].t = "absent" THEN doc[f] ELSE Stored(data[f], now)]

\* update(data) on an existing document, once Firestore has accepted it: a key
\* whose value is undefined is not written. (A client that does not ignore
\* undefined properties refuses such data instead: UpdateRejected.)
ApplyUpdate(doc, data, now) ==
  [f \in Fields |->
     IF data[f].t \in {"absent", "undefined"} THEN doc[f] ELSE Stored(data[f], now)]

DocIds == {<<"u1">>}

Exists(id) == id \in DocIds /\ userDocs[id] # NoDoc

NoWrite == [kind |-> "none", by |-> 0, id |-> <<>>, updates |-> NoDoc,
            before |-> NoDoc, pending |-> {}]

----------------------------------------------------------------------------
(* seedData *)

NoCounts == [present |-> FALSE, users |-> 0, artists |-> 0, albums |-> 0, reviews |-> 0]
Counts(g) == [present |-> TRUE, users |-> g.users, artists |-> g.artists,
              albums |-> g.albums, reviews |-> g.reviews]

NoRes == [status |-> 0, ok |-> FALSE, counts |-> NoCounts]

NoSeedReq ==
  [qKey |-> Absent, hKey |-> Absent, bKey |-> Absent,
   qUsers |-> Absent, bUsers |-> Absent, qArtists |-> Absent, bArtists |-> Absent,
   qAlbumsPerArtist |-> Absent, bAlbumsPerArtist |-> Absent,
   qReviewsPerUser |-> Absent, bReviewsPerUser |-> Absent]

\* res.status(401).json({ ok: false, error: "Unauthorized (invalid key)" })
seedUnauthorized == [status |-> 401, ok |-> FALSE, counts |-> NoCounts]

\* res.json({ ok: true, message, counts })
seedCompleted(g) == [status |-> 200, ok |-> TRUE, counts |-> Counts(g)]

\* Variant of seedError that reports the generated counts
seedErrorWithCounts(g) == [status |-> 500, ok |-> FALSE, counts |-> Counts(g)]

\* catch (err): res.status(500).json({ ok: false, error: String(err) })
seedError(g) == [status |-> 500, ok |-> FALSE, counts |-> NoCounts]

\* The handler from the request to its first await, or to its response
seedData(req, fake) ==
  /\ seedPc = "idle"
  /\ seedReq' = req
  /\ commits' = <<>>
  /\ UNCHANGED <<patch, userDocs, clock, lastWrite, prevWrite, creds>>
  /\ IF ~KeyAccepted(seedDataKey(req))
     THEN /\ seedRes' = seedUnauthorized
          /\ seedPc' = "done" /\ gen' = NoGen /\ next' = 1 /\ inflight' = {}
     ELSE LET g      == generate(req, fake)
              issued == commitBatchOps(1, opsLength(g))
          IN  /\ gen' = g
              /\ IF g.threw
                 THEN /\ seedRes' = seedError(g)
                      /\ seedPc' = "done" /\ next' = 1 /\ inflight' = {}
                 ELSE /\ inflight' = issued
                      /\ next' = After(1, issued)
                      /\ seedPc' = IF issued = {} THEN "done" ELSE "commit"
                      /\ seedRes' = IF issued = {} THEN seedCompleted(g) ELSE NoRes

\* await batch.commit() resolves: the batch is durable, and the handler runs on
\* to its next commit or to its response
CommitResolved ==
  /\ seedPc = "commit"
  /\ \E b \in inflight :
       LET first  == b.lo <= 1 /\ 1 <= b.hi /\ gen.users >= 1
           id     == gen.first["id"].s
           rest   == inflight \ {b}
           issued == IF rest = {} THEN commitBatchOps(next, opsLength(gen)) ELSE {}
       IN  /\ commits' = Append(commits, b)
           /\ IF first /\ id \in DocIds
              THEN /\ clock < MaxClock
                   /\ clock' = clock + 1
                   /\ userDocs' = [userDocs EXCEPT
                                     ![id] = MergeSet(@, userPayload(gen.first), clock + 1)]
                   /\ lastWrite' = [NoWrite EXCEPT !.kind = "seed", !.id = id]
                   /\ prevWrite' = lastWrite
              ELSE UNCHANGED <<userDocs, clock, lastWrite, prevWrite>>
           /\ inflight' = rest \cup issued
           /\ next' = After(next, issued)
           /\ seedPc' = IF rest \cup issued = {} THEN "done" ELSE "commit"
           /\ seedRes' = IF rest \cup issued = {} THEN seedCompleted(gen) ELSE NoRes
  /\ UNCHANGED <<seedReq, gen, patch, creds>>

\* await batch.commit() rejects: the exception leaves commitBatchOps and the
\* try block; nothing of the batch is written
CommitRejected ==
  /\ seedPc = "commit"
  /\ inflight # {}
  /\ seedRes' = seedError(gen)
  /\ seedPc' = "done"
  /\ inflight' = {}
  /\ UNCHANGED <<seedReq, gen, next, commits, patch, userDocs, clock, lastWrite, prevWrite, creds>>

\* The invocation has responded and ends; its locals are gone
seedDataReturns ==
  /\ seedPc = "done"
  /\ seedPc' = "idle"
  /\ seedReq' = NoSeedReq
  /\ seedRes' = NoRes
  /\ gen' = NoGen
  /\ next' = 1
  /\ inflight' = {}
  /\ commits' = <<>>
  /\ UNCHANGED <<patch, userDocs, clock, lastWrite, prevWrite, creds>>

----------------------------------------------------------------------------
(* updateUser *)

Patchers == {1, 2}

\* typeof v
TypeOf(v) ==
  CASE v.t \in {"object", "array", "null"} -> "object"
    [] v.t \in {"string", "numeral"}        -> "string"
    [] v.t = "number"                       -> "number"
    [] OTHER                                -> "undefined"

\* The own enumerable properties `...v` copies
Spread(v) == IF v.t \in {"object", "array"} THEN v.map ELSE NoDoc

NoUser == [status |-> 0, ok |-> FALSE, user |-> NoDoc]

\* res.status(401).json({ ok: false, error: "Unauthorized (invalid key)" })
updateUnauthorized == [status |-> 401, ok |-> FALSE, user |-> NoDoc]

\* res.status(400).json({ ok: false, error: "Bad request: missing id or updates" })
updateBadRequest == [status |-> 400, ok |-> FALSE, user |-> NoDoc]

\* catch (err): res.status(500).json({ ok: false, error: String(err) })
updateError == [status |-> 500, ok |-> FALSE, user |-> NoDoc]

\* res.json({ ok: true, user: updated.data() })
updateCompleted(doc) == [status |-> 200, ok |-> TRUE, user |-> doc]

\* const id = req.body?.id || req.query?.id
updateUserId(req) == Or(req.bId, req.qId)

\* const updates = req.body?.updates || req.query?.updates
updateUserUpdates(req) == Or(req.bUpdates, req.qUpdates)

\* the negation of `!id || !updates || typeof updates !== "object"`
updateWellFormed(id, updates) ==
  ~((~Truthy(id)) \/ (~Truthy(updates)) \/ TypeOf(updates) # "object")

\* The object literal handed to userRef.update
updateData(updates) ==
  LET m == Spread(updates)
  IN  [f \in Fields |->
        CASE f = "usernameLowercase" ->
               IF Truthy(m["username"])
               THEN Str(toLowerCase(String(m["username"]))) ELSE Undef
          [] f = "nameLowercase" ->
               IF Truthy(m["name"])
               THEN Str(toLowerCase(String(m["name"]))) ELSE Undef
          [] f = "updatedAt" -> ServerTimestamp
          [] OTHER -> m[f]]

\* Variant of patchedDoc that lowercases the username stored before the update
patchedDocStale(doc, updates, now) ==
  ApplyUpdate(doc,
              [updateData(updates) EXCEPT
                 !["usernameLowercase"] =
                    IF Truthy(Spread(updates)["username"])
                    THEN Str(toLowerCase(String(doc["username"]))) ELSE Undef],
              now)

\* Variant of patchedDoc that spreads updates after the computed fields
patchedDocSpreadLast(doc, updates, now) ==
  ApplyUpdate(doc,
              [f \in Fields |->
                 IF Spread(updates)[f].t # "absent"
                 THEN Spread(updates)[f] ELSE updateData(updates)[f]],
              now)

\* The document after `await userRef.update({...updates, ...})` took effect
patchedDoc(doc, updates, now) == ApplyUpdate(doc, updateData(updates), now)

Idle == [pc |-> "idle", req |-> Absent, res |-> NoUser]

\* The handler from the request to `await userRef.update`, or to its response
updateUser(p, req) ==
  /\ patch[p].pc = "idle"
  /\ LET id      == updateUserId(req)
         updates == updateUserUpdates(req)
     IN  patch' = [patch EXCEPT ![p] =
           IF ~KeyAccepted(updateUserKey(req))
           THEN [pc |-> "done", req |-> req, res |-> updateUnauthorized]
           ELSE IF ~updateWellFormed(id, updates)
           THEN [pc |-> "done", req |-> req, res |-> updateBadRequest]
           ELSE [pc |-> "update", req |-> req, res |-> NoUser]]
  /\ UNCHANGED <<seedVars, userDocs, clock, lastWrite, prevWrite, creds>>

\* await userRef.update(...) resolves: Firestore applied the update
UpdateResolved(p) ==
  /\ patch[p].pc = "update"
  /\ LET id      == updateUserId(patch[p].req).s
         updates == updateUserUpdates(patch[p].req)
     IN  /\ Exists(id)
         /\ clock < MaxClock
         /\ clock' = clock + 1
         /\ userDocs' = [userDocs EXCEPT ![id] = patchedDoc(@, updates, clock + 1)]
         /\ lastWrite' =
              [kind |-> "patch", by |-> p, id |-> id, updates |-> Spread(updates),
               before |-> userDocs[id],
               pending |-> {q \in Patchers \ {p} :
                              /\ patch[q].pc = "update"
                              /\ updateUserId(patch[q].req).s = id}]
         /\ prevWrite' = lastWrite
  /\ patch' = [patch EXCEPT ![p].pc = "get"]
  /\ UNCHANGED <<seedVars, creds>>

\* await userRef.update(...) rejects: no such document, a value Firestore
\* refuses, or a failed call; nothing is written
UpdateRejected(p) ==
  /\ patch[p].pc = "update"
  /\ patch' = [patch EXCEPT ![p].pc = "done", ![p].res = updateError]
  /\ UNCHANGED <<seedVars, userDocs, clock, lastWrite, prevWrite, creds>>

\* await userRef.get() resolves
GetResolved(p) ==
  /\ patch[p].pc = "get"
  /\ LET id == updateUserId(patch[p].req).s
     IN  patch' = [patch EXCEPT ![p].pc = "done",
                                ![p].res = updateCompleted(userDocs[id])]
  /\ UNCHANGED <<seedVars, userDocs, clock, lastWrite, prevWrite, creds>>

\* await userRef.get() rejects
GetRejected(p) ==
  /\ patch[p].pc = "get"
  /\ patch' = [patch EXCEPT ![p].pc = "done", ![p].res = updateError]
  /\ UNCHANGED <<seedVars, userDocs, clock, lastWrite, prevWrite, creds>>

\* The invocation has responded and ends; its locals are gone
updateUserReturns(p) ==
  /\ patch[p].pc = "done"
  /\ patch' = [patch EXCEPT ![p] = Idle]
  /\ UNCHANGED <<seedVars, userDocs, clock, lastWrite, prevWrite, creds>>

----------------------------------------------------------------------------
(* Initial state: the functions are deployed, the collections empty *)

\* Clients sending the key the given ways
Start(keys) ==
  /\ creds \in keys
  /\ seedPc = "idle"
  /\ seedReq = NoSeedReq
  /\ seedRes = NoRes
  /\ gen = NoGen
  /\ next = 1
  /\ inflight = {}
  /\ commits = <<>>
  /\ patch = [p \in Patchers |-> Idle]
  /\ userDocs = [id \in DocIds |-> NoDoc]
  /\ clock = 0
  /\ lastWrite = NoWrite
  /\ prevWrite = NoWrite

----------------------------------------------------------------------------
(* Requests the clients send *)

WrongKey == Str(<<"wrong">>)

\* An object literal with the keys and values of record r
Object(r) == Obj([f \in Fields |-> IF f \in DOMAIN r THEN r[f] ELSE Absent])

Fo == Str(<<"F", "o">>)
AB == Str(<<"A", "B">>)
XA == Str(<<"X", "A">>)

SeedRequest(keys, users, artists, perArtist, perUser) ==
  [qKey |-> keys[1], hKey |-> keys[2], bKey |-> keys[3],
   qUsers |-> users[1], bUsers |-> users[2],
   qArtists |-> artists[1], bArtists |-> artists[2],
   qAlbumsPerArtist |-> perArtist[1], bAlbumsPerArtist |-> perArtist[2],
   qReviewsPerUser |-> perUser[1], bReviewsPerUser |-> perUser[2]]

PatchRequest(keys, ids, updates) ==
  [qKey |-> keys[1], hKey |-> keys[2], bKey |-> keys[3],
   qId |-> ids[1], bId |-> ids[2],
   qUpdates |-> updates[1], bUpdates |-> updates[2]]

\* Every way of sending, or not sending, a key in the three places
AllKeys ==
  {Absent, Str(<<>>), SEED_KEY, WrongKey} \X {Absent, SEED_KEY, WrongKey}
    \X {Absent, SEED_KEY, WrongKey}

One == <<Numeral(1), Absent>>

\* A small seeding: one user, artist, album and review
SmallSeed == SeedRequest(creds, One, One, One, One)

\* A patch of the user the small seeding creates
SmallPatch ==
  PatchRequest(creds, <<Absent, Str(<<"u1">>)>>,
               <<Absent, Object([username |-> Fo, name |-> AB])>>)

InQuery == {<<SEED_KEY, Absent, Absent>>}
InBody  == {<<Absent, Absent, SEED_KEY>>}

UsersSent        == {Absent, Numeral(0), Numeral(-1), Str(<<"a", "b">>), Numeral(300),
                     Numeral(600)}
UsersInBody      == {Absent, Num(2)}
ArtistsSent      == {Absent, Numeral(0), Numeral(250)}
PerArtistSent    == {Absent, Numeral(1), Numeral(25)}
PerArtistInBody  == {Absent, Num(5)}
PerUserSent      == {Absent, Numeral(0), Numeral(1)}

PatchIds ==
  { <<Absent, Absent>>, <<Absent, Str(<<"u1">>)>>, <<Str(<<"u1">>), Absent>>,
    <<Absent, Str(<<"u9">>)>> }

PatchUpdates ==
  { Absent, Null, Str(<<"x">>), Num(7), Arr([NoDoc EXCEPT !["0"] = Str(<<"x">>)]),
    Object([username |-> Fo]),
    Object([username |-> Fo, name |-> AB]),
    Object([username |-> Str(<<>>)]),
    Object([username |-> Num(0), name |-> AB]),
    Object([bio |-> Str(<<"x">>)]) }

RacingUpdates ==
  { Object([username |-> Fo, name |-> AB]),
    Object([username |-> Str(<<>>), bio |-> Str(<<"y">>)]),
    Object([usernameLowercase |-> XA, name |-> AB]) }

OneFake == {CHOOSE f \in Fakes : f.userName[1] = "b"}

----------------------------------------------------------------------------
(* Specifications *)

\* The seeding endpoint, with every kind of quantity
SeedingRequest ==
  \E qu \in UsersSent, bu \in UsersInBody, qa \in ArtistsSent, qp \in PerArtistSent,
     bp \in PerArtistInBody, qr \in PerUserSent, fake \in OneFake :
    seedData(SeedRequest(creds, <<qu, bu>>, <<qa, Absent>>, <<qp, bp>>, <<qr, Absent>>),
             fake)

SeedSettles == CommitResolved \/ CommitRejected \/ seedDataReturns

NextSeed == SeedingRequest \/ SeedSettles

SpecSeed == Start(InQuery \cup {<<WrongKey, Absent, Absent>>}) /\ [][NextSeed]_vars

\* Both endpoints, with the key sent in every way
SmallSeedRequest  == \E fake \in Fakes : seedData(SmallSeed, fake)
SmallPatchRequest == updateUser(1, SmallPatch)
PatchSettles ==
  \/ UpdateResolved(1) \/ UpdateRejected(1) \/ GetResolved(1) \/ GetRejected(1)
  \/ updateUserReturns(1)

\* Between requests the client changes where and which key it sends
ClientRekeys ==
  /\ seedPc = "idle"
  /\ patch[1].pc = "idle"
  /\ creds' \in AllKeys \ {creds}
  /\ UNCHANGED <<seedVars, patch, userDocs, clock, lastWrite, prevWrite>>

NextAuth ==
  ClientRekeys \/ SmallSeedRequest \/ SeedSettles \/ SmallPatchRequest \/ PatchSettles

SpecAuth == Start(AllKeys) /\ [][NextAuth]_vars

\* One client patching the user a small seeding created
OneSeedRequest  == \E fake \in OneFake : seedData(SmallSeed, fake)
AnyPatchRequest ==
  \E ids \in PatchIds, u \in PatchUpdates :
    updateUser(1, PatchRequest(creds, ids, <<Absent, u>>))

NextPatch ==
  OneSeedRequest \/ SeedSettles \/ AnyPatchRequest \/ PatchSettles

SpecPatch == Start(InBody) /\ [][NextPatch]_vars

\* Two clients patching the same user at once
RacingPatchRequest ==
  \E p \in Patchers, u \in RacingUpdates :
    updateUser(p, PatchRequest(creds, <<Absent, Str(<<"u1">>)>>, <<Absent, u>>))
RacingPatchSettles ==
  \E p \in Patchers :
    \/ UpdateResolved(p) \/ UpdateRejected(p) \/ GetResolved(p) \/ GetRejected(p)
    \/ updateUserReturns(p)

NextRace == OneSeedRequest \/ SeedSettles \/ RacingPatchRequest \/ RacingPatchSettles

SpecRace == Start(InBody) /\ [][NextRace]_vars

----------------------------------------------------------------------------
(* Properties *)

\* A key was sent in this place
Sent(k) == k \notin {Absent, Str(<<>>)}

\* The first key sent among the places, in their order; "" when none
FirstSent(places) ==
  IF \E i \in DOMAIN places : Sent(places[i])
  THEN places[CHOOSE i \in DOMAIN places :
                Sent(places[i]) /\ \A j \in 1..(i - 1) : ~Sent(places[j])]
  ELSE Str(<<>>)

\* The key is missing or differs from the server's
Refused(key) == (~Sent(key)) \/ key # SEED_KEY

\* The invocation went past its key check
seedDataLetIn    == seedPc = "commit" \/ (seedPc = "done" /\ seedRes.status # 401)
updateUserLetIn(p) ==
  patch[p].pc \in {"update", "get"} \/ (patch[p].pc = "done" /\ patch[p].res.status # 401)

\* C1: a request to seedData or updateUser whose key, as the endpoint reads it,
\* is missing or differs from SEED_KEY is answered 401 in the step that receives
\* it, and that step leaves the documents alone and hands no batch to commit().
C1_RefusedWritesNothing ==
  [][ /\ ( /\ seedPc = "idle" /\ seedPc' # "idle"
           /\ Refused(seedDataKey(seedReq')) )
         => ( /\ seedPc' = "done" /\ seedRes'.status = 401
              /\ inflight' = {} /\ commits' = <<>>
              /\ storage' = storage )
      /\ \A p \in Patchers :
           ( /\ patch[p].pc = "idle" /\ patch'[p].pc # "idle"
             /\ Refused(updateUserKey(patch'[p].req)) )
           => ( /\ patch'[p].pc = "done" /\ patch'[p].res.status = 401
                /\ storage' = storage ) ]_vars

\* Both endpoints have refused a wrong key while a user document is stored
C1_Witness ==
  /\ seedPc = "done" /\ seedRes.status = 401
  /\ patch[1].pc = "done" /\ patch[1].res.status = 401
  /\ \E i \in 1..3 : creds[i] = WrongKey
  /\ Exists(<<"u1">>)

Asked(q, b, default) ==
  LET v == IF q # Absent THEN q ELSE b
  IN  IF v.t \in {"number", "numeral"} THEN v.n ELSE default

Clamp(x, lo, hi) == IF x < lo THEN lo ELSE IF x > hi THEN hi ELSE x

\* C3 as stated: a completed seeding reports users = clamp(users, 1..500),
\* artists = clamp(artists, 1..200), albums = artists * clamp(albumsPerArtist,
\* 1..20) and reviews = users * clamp(reviewsPerUser, 1..20), each quantity read
\* from the query or the body and replaced by its default (20, 8, 3, 2) when
\* missing or not a number.
C3_ReportedCounts ==
  (seedPc = "done" /\ seedRes.status = 200) =>
    LET users     == Clamp(Asked(seedReq.qUsers, seedReq.bUsers, 20), 1, 500)
        artists   == Clamp(Asked(seedReq.qArtists, seedReq.bArtists, 8), 1, 200)
        perArtist == Clamp(Asked(seedReq.qAlbumsPerArtist, seedReq.bAlbumsPerArtist, 3), 1, 20)
        perUser   == Clamp(Asked(seedReq.qReviewsPerUser, seedReq.bReviewsPerUser, 2), 1, 20)
    IN  /\ seedRes.counts.users   = users
        /\ seedRes.counts.artists = artists
        /\ seedRes.counts.albums  = artists * perArtist
        /\ seedRes.counts.reviews = users * perUser

\* users + artists + artists*albumsPerArtist + users*reviewsPerUser of the
\* invocation's request
TotalOps ==
  LET users   == LoopRuns(usersCount(seedReq))
      artists == LoopRuns(artistsCount(seedReq))
  IN  users + artists + artists * LoopRuns(albumsPerArtist(seedReq))
        + users * LoopRuns(reviewsPerUser(seedReq))

Size(b) == b.hi - b.lo + 1

\* C4: when a seeding has answered 200, its committed batches are ceil(total_ops
\* / 500) in number and cut ops 1..total_ops in list order: the first starts at
\* 1, each starts where the one before ended, the last ends at total_ops, none
\* is empty or holds more than 500, and only the last may hold fewer than 500.
C4_BatchesPartitionOps ==
  (seedPc = "done" /\ seedRes.status = 200) =>
    /\ Len(commits) = (TotalOps + 499) \div 500
    /\ Len(commits) = 0 => TotalOps = 0
    /\ Len(commits) > 0 => commits[1].lo = 1 /\ commits[Len(commits)].hi = TotalOps
    /\ \A k \in 1..Len(commits) :
         /\ Size(commits[k]) >= 1 /\ Size(commits[k]) <= 500
         /\ k < Len(commits) =>
              Size(commits[k]) = 500 /\ commits[k + 1].lo = commits[k].hi + 1

\* A seeding completed with several full batches and a shorter last one
C4_Witness ==
  /\ seedPc = "done" /\ seedRes.status = 200
  /\ Len(commits) >= 3
  /\ Size(commits[Len(commits)]) < 500

\* A commit of the invocation was rejected: it was let in, generated its
\* entities, and responded with ops left uncommitted
CommitFailed ==
  /\ seedPc = "done" /\ seedRes.status # 401 /\ ~gen.threw
  /\ opsLength(gen) > 0
  /\ (Len(commits) = 0 \/ commits[Len(commits)].hi < opsLength(gen))

\* C5 as stated: when a commit fails, the response still reports the numbers of
\* generated users, artists, albums and reviews.
C5_FailureReportsCounts ==
  CommitFailed => seedRes.counts = Counts(gen)

\* C5 amended: when a commit fails, the response is 500 with ok false and carries
\* no counts, however many batches were committed before; a response carries
\* counts only with status 200, after every commit succeeded.
C5_FailureReportsNoCounts ==
  /\ CommitFailed =>
       seedRes.status = 500 /\ ~seedRes.ok /\ ~seedRes.counts.present
  /\ (seedPc = "done" /\ seedRes.counts.present) =>
       seedRes.status = 200 /\ ~CommitFailed

\* A commit failed after two batches had been committed
C5_Witness == CommitFailed /\ Len(commits) = 2

\* The k-th batch of the invocation's ops
Batch(k) ==
  [lo |-> 500 * (k - 1) + 1,
   hi |-> IF 500 * k < opsLength(gen) THEN 500 * k ELSE opsLength(gen)]

\* C9: within a seeding at most one commit is in flight; the committed batches
\* are the first batches of ops in order; the batch in flight is the one after
\* them; and once a commit has failed no batch is in flight, so the failed batch
\* and those after it stay unwritten.
C9_CommitsAreAPrefix ==
  /\ Cardinality(inflight) <= 1
  /\ \A k \in 1..Len(commits) : commits[k] = Batch(k)
  /\ \A b \in inflight : seedPc = "commit" /\ b = Batch(Len(commits) + 1)
  /\ seedPc = "done" => inflight = {}

\* The third commit failed: two batches are durable, later ones unwritten
C9_Witness ==
  /\ CommitFailed /\ Len(commits) = 2
  /\ opsLength(gen) > 1500

\* The lowercase form of a stored value
Lowercase(v) == Str(toLowerCase(String(v)))

\* C6 as stated: every stored user document has usernameLowercase equal to the
\* lowercase of username, and nameLowercase equal to the lowercase of name,
\* whenever the source field is present.
C6_LowercaseFollowsSource ==
  \A id \in DocIds :
    /\ userDocs[id]["username"] # Absent =>
         userDocs[id]["usernameLowercase"] = Lowercase(userDocs[id]["username"])
    /\ userDocs[id]["name"] # Absent =>
         userDocs[id]["nameLowercase"] = Lowercase(userDocs[id]["name"])

\* The request names no id, names no updates, or its updates are not an object
\* literal
Malformed(req) ==
  \/ ~Sent(req.qId) /\ ~Sent(req.bId)
  \/ req.qUpdates = Absent /\ req.bUpdates = Absent
  \/ (IF req.bUpdates # Absent THEN req.bUpdates ELSE req.qUpdates).t # "object"

\* C7 as stated: an updateUser request that is let in and whose id is missing,
\* whose updates are missing, or whose updates are not an object literal (a
\* string, a number, an array) is answered 400 without calling update.
C7_MalformedIs400 ==
  \A p \in Patchers :
    (patch[p].pc # "idle" /\ updateUserLetIn(p) /\ Malformed(patch[p].req)) =>
      (patch[p].pc = "done" /\ patch[p].res.status = 400)

\* The last two writes of a user document were the same patch, one after the other
SamePatchTwice ==
  /\ prevWrite.kind = "patch" /\ lastWrite.kind = "patch"
  /\ prevWrite.id = lastWrite.id
  /\ prevWrite.updates = lastWrite.updates

\* C8 as stated: applying the same updates to the same user twice in a row
\* leaves the document as it was after the first time.
C8_SecondPatchChangesNothing ==
  SamePatchTwice => userDocs[lastWrite.id] = lastWrite.before

\* C8 amended: applying the same updates to the same user twice in a row leaves
\* every field but updatedAt as it was after the first time.
C8_SecondPatchChangesOnlyUpdatedAt ==
  SamePatchTwice =>
    \A f \in Fields \ {"updatedAt"} :
      userDocs[lastWrite.id][f] = lastWrite.before[f]

\* A patch naming a username was applied twice in a row
C8_Witness ==
  /\ SamePatchTwice
  /\ Truthy(lastWrite.updates["username"])
  /\ userDocs[lastWrite.id]["updatedAt"] # lastWrite.before["updatedAt"]

\* Two patches of the same user were both in flight, and both were applied
Raced ==
  /\ prevWrite.kind = "patch" /\ lastWrite.kind = "patch"
  /\ prevWrite.id = lastWrite.id
  /\ lastWrite.by \in prevWrite.pending

Named(m, f) == m[f] # Absent

\* The key a lowercase field is computed from
SourceOf(f) == IF f = "usernameLowercase" THEN "username" ELSE "name"

\* A lowercase field is not altered by a patch that does not name its source
LowercaseKept ==
  \A f \in {"usernameLowercase", "nameLowercase"} :
    /\ ~Named(prevWrite.updates, SourceOf(f)) => lastWrite.before[f] = prevWrite.before[f]
    /\ ~Named(lastWrite.updates, SourceOf(f)) =>
         userDocs[lastWrite.id][f] = lastWrite.before[f]

\* C10 as stated: after two concurrent patches of a user, a field named by the
\* patch applied last has its value, a field named only by the other has that
\* one's value, a lowercase field is not altered by a patch that does not name
\* its source, and a field named by neither, other than updatedAt, is unchanged.
C10_LastWriteWins ==
  Raced =>
    /\ \A f \in Fields :
         /\ Named(lastWrite.updates, f) =>
              userDocs[lastWrite.id][f] = lastWrite.updates[f]
         /\ (Named(prevWrite.updates, f) /\ ~Named(lastWrite.updates, f)) =>
              userDocs[lastWrite.id][f] = prevWrite.updates[f]
         /\ ( /\ ~Named(prevWrite.updates, f) /\ ~Named(lastWrite.updates, f)
              /\ f # "updatedAt" ) =>
              userDocs[lastWrite.id][f] = prevWrite.before[f]
    /\ LowercaseKept

\* The fields the handler computes itself
Computed == {"usernameLowercase", "nameLowercase", "updatedAt"}

\* C10 amended: the same, for every field but usernameLowercase, nameLowercase
\* and updatedAt, which the handler computes whatever the mapping says of them:
\* a lowercase field is not altered by a patch that does not name its source.
C10_LastWriteWinsButComputed ==
  Raced =>
    /\ \A f \in Fields \ Computed :
         /\ Named(lastWrite.updates, f) =>
              userDocs[lastWrite.id][f] = lastWrite.updates[f]
         /\ (Named(prevWrite.updates, f) /\ ~Named(lastWrite.updates, f)) =>
              userDocs[lastWrite.id][f] = prevWrite.updates[f]
         /\ (~Named(prevWrite.updates, f) /\ ~Named(lastWrite.updates, f)) =>
              userDocs[lastWrite.id][f] = prevWrite.before[f]
    /\ LowercaseKept

\* Two concurrent patches gave the same field different values
C10_Witness ==
  /\ Raced
  /\ \E f \in Fields :
       /\ Named(prevWrite.updates, f) /\ Named(lastWrite.updates, f)
       /\ prevWrite.updates[f] # lastWrite.updates[f]

====
